---------------------------- MODULE Spec2Model ----------------------------
(***************************************************************************)
(* One-day itinerary planner (CSL426/Trip-Algorithm).                      *)
(*                                                                         *)
(* The module models one planning run of each planner entry point:         *)
(*   "core"      plan_trip                     src/src/core/TripPlanner.py  *)
(*   "advanced"  AdvancedTripPlanner.plan      src/src/core/planners/       *)
(*   "system"    TripPlanningSystem.plan_trip  src/main.py                  *)
(*                                                                         *)
(* Conventions.  Times are minutes; a datetime of the run is the number of *)
(* minutes since 00:00 of the trip's day (it may pass 1440), strftime      *)
(* '%H:%M' is Fmt (minutes modulo one day) and strptime is the identity on *)
(* 0..1439.  Places lie on one meridian, Pos is the integer number of      *)
(* kilometres north of the origin, so the haversine distance of two places *)
(* is the absolute difference of their positions and a latitude difference *)
(* of one degree is 111.195 km (R = 6371).  The travel oracle is the       *)
(* fallback estimator (no provider), which is what the scenarios of the    *)
(* specification use.                                                      *)
(***************************************************************************)
EXTENDS Integers, Sequences, FiniteSets, TLC

VARIABLES
    planner,      \* which entry point runs
    catalog,      \* the POI list handed to the planner (sequence of names)
    start_time,   \* requirement: start, minutes
    end_time,     \* requirement: end, minutes
    end_point,    \* name of the end location
    pc,           \* position of the run
    clock,        \* current_time / visit_time
    here,         \* current_location (a name)
    remaining,    \* available_locations / remaining_places
    had_lunch,
    had_dinner,
    selected,     \* selected_locations / visited_places
    itinerary,    \* the list of steps built so far
    run,          \* 1 for the first run of the request, 2 for the second,
                  \* 3 for a second call of plan on the same planner object
    first,        \* the outcome of the first run
    locations,    \* the keys plan_trip writes into the caller's POI dicts
    cache,        \* the dict of geo_cache around GeoService.get_route
    recency,      \* history: the keys of cache, least recently used first
    has_google_maps,  \* GeoService.has_google_maps of each instance
    reply,        \* outcome of the last get_route call
    call          \* the last call of a library function and its outcome

vars == <<planner, catalog, start_time, end_time, end_point, pc, clock, here,
          remaining, had_lunch, had_dinner, selected, itinerary, run, first,
          locations, cache, recency, has_google_maps, reply, call>>

\* the state of the services, which a planning run of this model leaves alone
\* (the run uses the fallback estimator directly)
svcVars == <<cache, recency, has_google_maps, reply, call>>

\* the state of a planning run
runVars == <<planner, catalog, start_time, end_time, end_point, pc, clock, here,
             remaining, had_lunch, had_dinner, selected, itinerary, run, first,
             locations>>

---------------------------------------------------------------------------
(* Bounds of the model *)

MaxCatalog == 2

(* Program constants *)

DistanceThreshold == 30
MinDuration == 30
TrimStep == 30
LunchTime == 720
DinnerTime == 1080
MealWindow == 60
TopPlaces == 3
MaxContinuousVisits == 3

---------------------------------------------------------------------------
(* Catalog data *)

Slot(s, e) == [start |-> s, end |-> e]

NullSlot == [start |-> -1, end |-> -1]

WholeDay == Slot(0, 1439)

Poi(pos, dur, label, rating, period, hours) ==
    [pos |-> pos, dur |-> dur, label |-> label, rating |-> rating,
     period |-> period, hours |-> hours]

\* hours: the slot list of the trip's weekday
PoiPool ==
    [ Museum  |-> Poi(5, 60, "attraction", 47, "morning", <<Slot(540, 1260)>>),
      Park    |-> Poi(34, 120, "attraction", 40, "afternoon", <<WholeDay>>),
      Diner   |-> Poi(3, 60, "restaurant", 46, "lunch", <<Slot(660, 1260)>>),
      Gallery |-> Poi(20, 90, "shop", 42, "morning", <<Slot(590, 780)>>),
      Lookout |-> Poi(40, 60, "attraction", 44, "afternoon", <<Slot(480, 1200)>>),
      Closed  |-> Poi(6, 60, "attraction", 45, "morning", <<>>),
      Annex   |-> Poi(-5, 60, "attraction", 40, "morning", <<Slot(540, 1260)>>),
      Cafe    |-> Poi(2, 30, "snack", 43, "lunch", <<Slot(660, 840)>>) ]

PoiNames == DOMAIN PoiPool

Origin == "Origin"
Hotel == "Hotel"

PosOf(n) == IF n = Origin THEN 0 ELSE IF n = Hotel THEN -11 ELSE PoiPool[n].pos
Dur(n) == PoiPool[n].dur
Label(n) == PoiPool[n].label
Hours(n) == PoiPool[n].hours

---------------------------------------------------------------------------
(* Time and geometry primitives *)

Abs(x) == IF x < 0 THEN -x ELSE x
Max(a, b) == IF a >= b THEN a ELSE b
Min(a, b) == IF a <= b THEN a ELSE b

\* datetime.strftime('%H:%M') / datetime.time(): the time of day
Fmt(t) == t % 1440

\* datetime.hour
HourOf(t) == (t % 1440) \div 60

\* calculate_distance on one meridian, kilometres
DistKm(a, b) == Abs(PosOf(a) - PosOf(b))

\* calculate_travel_time, fallback branch: max(2, int((lat_diff + lon_diff) * 100))
TravelTime(a, b) ==
    IF a = b THEN 0 ELSE Max(2, (DistKm(a, b) * 100000) \div 111195)

MealLabels == {"restaurant", "snack", "nightmarket"}

Last(s) == s[Len(s)]

\* a pop that takes the first element
Rest(s) == SubSeq(s, 2, Len(s))
Front(s) == SubSeq(s, 1, Len(s) - 1)

\* a removal that leaves the list as it is
KeepPlace(s, x) == s

\* list.remove(x): the list without its first occurrence of x
RECURSIVE RemoveFirst(_, _)
RemoveFirst(s, x) ==
    IF s = <<>> THEN <<>>
    ELSE IF Head(s) = x THEN Tail(s)
    ELSE <<Head(s)>> \o RemoveFirst(Tail(s), x)

\* a meal flag that follows the last place only
ReplaceFlag(flag, eaten) == eaten

\* "if <meal place at meal time>: had_lunch = True": the flag is set and
\* is never cleared
SetFlag(flag, eaten) == flag \/ eaten

Step(name, arrive, depart, dwell, travel, kind) ==
    [name |-> name, arrive |-> arrive, depart |-> depart, dwell |-> dwell,
     travel |-> travel, kind |-> kind]

NoPlace == "none"

\* the origin step every planner starts the itinerary with
OriginStep == Step(Origin, Fmt(start_time), Fmt(start_time), 0, 0, "origin")

---------------------------------------------------------------------------
(* plan_trip, src/src/core/TripPlanner.py *)

\* parse_hours: the single 'HH:MM - HH:MM' slot of a POI
CoreOpen(n) == Hours(n)[1].start
CoreClose(n) == Hours(n)[1].end

CoreIsMealTime(t) ==
    \/ ~had_lunch /\ 11 <= HourOf(t) /\ HourOf(t) <= 13
    \/ ~had_dinner /\ 17 <= HourOf(t) /\ HourOf(t) <= 18

CoreMealType(t) ==
    IF ~had_lunch /\ 11 <= HourOf(t) /\ HourOf(t) <= 13 THEN "lunch"
    ELSE IF ~had_dinner /\ 17 <= HourOf(t) /\ HourOf(t) <= 18 THEN "dinner"
    ELSE NoPlace

\* first stage: distance filter and the estimated opening-hours check
CoreNearby(n) ==
    LET d == DistKm(here, n)
        estArrival == clock + d * 3
        estDeparture == estArrival + Dur(n)
    IN  /\ d * 10 <= (IF Dur(n) >= 90 THEN DistanceThreshold * 12
                                     ELSE DistanceThreshold * 10)
        /\ Fmt(estArrival) >= CoreOpen(n)
        /\ Fmt(estDeparture) <= CoreClose(n)

\* second stage: the candidates that are scored
CoreCandidate(n) ==
    /\ CoreNearby(n)
    /\ CoreIsMealTime(clock) => Label(n) \in MealLabels
    /\ clock + TravelTime(here, n) + Dur(n) <= end_time

\* efficiency as a fraction EffNum / EffDen
CoreEffNum(n) ==
    LET tt == TravelTime(here, n)
    IN  Dur(n)
          * (IF CoreIsMealTime(clock) /\ Label(n) \in MealLabels THEN 2 ELSE 1)
          * (IF tt > 45 THEN 5 ELSE IF tt > 30 THEN 7 ELSE 10)

CoreEffDen(n) == 10 * Max(DistKm(here, n) * TravelTime(here, n), 1)

\* the scan "if efficiency > best_efficiency" over the list, first best wins
RECURSIVE CoreScan(_, _)
CoreScan(s, best) ==
    IF s = <<>> THEN best
    ELSE LET n == Head(s)
         IN  IF ~CoreCandidate(n) THEN CoreScan(Tail(s), best)
             ELSE IF best = NoPlace
                     \/ CoreEffNum(n) * CoreEffDen(best)
                          > CoreEffNum(best) * CoreEffDen(n)
                  THEN CoreScan(Tail(s), n)
                  ELSE CoreScan(Tail(s), best)

CoreBest ==
    LET b == CoreScan(remaining, NoPlace)
    IN  IF b # NoPlace /\ 10 * CoreEffNum(b) >= CoreEffDen(b) THEN b ELSE NoPlace

\* the keys 'is_meal' and 'meal_type' of a POI dict: absent until plan_trip
\* selects the place
NoMealKeys == [present |-> FALSE, is_meal |-> FALSE, meal_type |-> NoPlace]

MealKeys(is_meal, meal_type) ==
    [present |-> TRUE, is_meal |-> is_meal, meal_type |-> meal_type]

\* one iteration of the selection loop that selects a place (lines 140-250)
CoreSelect ==
    /\ planner = "core" /\ pc = "loop"
    /\ remaining # <<>> /\ clock < end_time
    /\ CoreBest # NoPlace
    /\ LET b == CoreBest
           meal == CoreIsMealTime(clock) /\ Label(b) \in MealLabels
       IN  /\ had_lunch' = SetFlag(had_lunch, meal /\ CoreMealType(clock) = "lunch")
           /\ had_dinner' = SetFlag(had_dinner, meal /\ CoreMealType(clock) # "lunch")
           /\ locations' = [locations EXCEPT ![b] =
                  IF meal THEN MealKeys(TRUE, CoreMealType(clock))
                  ELSE MealKeys(FALSE, NoPlace)]
           /\ selected' = Append(selected, b)
           /\ remaining' = RemoveFirst(remaining, b)
           /\ here' = b
           /\ clock' = clock + TravelTime(here, b) + Dur(b)
    /\ UNCHANGED svcVars
    /\ UNCHANGED <<planner, catalog, start_time, end_time, end_point, pc, itinerary,
                   run, first>>

\* the itinerary generated from selected_locations (lines 254-297)
RECURSIVE CoreSteps(_, _, _)
CoreSteps(sel, from, t) ==
    IF sel = <<>> THEN <<>>
    ELSE LET n == Head(sel)
             arr == t + TravelTime(from, n)
             dep == arr + Dur(n)
         IN  <<Step(n, Fmt(arr), Fmt(dep), Dur(n), TravelTime(from, n), "visit")>>
               \o CoreSteps(Tail(sel), n, dep)

RECURSIVE CoreEndClock(_, _, _)
CoreEndClock(sel, from, t) ==
    IF sel = <<>> THEN t
    ELSE CoreEndClock(Tail(sel), Head(sel), t + TravelTime(from, Head(sel)) + Dur(Head(sel)))

\* the return step (lines 299-316)
CoreReturn(sel) ==
    IF sel = <<>> THEN <<>>
    ELSE LET rt == TravelTime(Last(sel), end_point)
             arr == CoreEndClock(sel, Origin, start_time) + rt
         IN  <<Step(end_point, Fmt(arr), Fmt(arr), 0, rt, "return")>>

\* the loop ends (condition false, or break) and the itinerary is generated
CoreBuild ==
    /\ planner = "core" /\ pc = "loop"
    /\ remaining = <<>> \/ clock >= end_time \/ CoreBest = NoPlace
    /\ itinerary' = <<OriginStep>>
                      \o CoreSteps(selected, Origin, start_time)
                      \o CoreReturn(selected)
    /\ pc' = "done"
    /\ UNCHANGED svcVars
    /\ UNCHANGED <<locations, planner, catalog, start_time, end_time, end_point, clock, here,
                   remaining, had_lunch, had_dinner, selected, run, first>>

---------------------------------------------------------------------------
(* AdvancedTripPlanner, src/src/core/planners/advanced_planner.py *)

\* _calculate_time_priority, in tenths
AdvTimePriority(t) ==
    LET h == HourOf(t)
    IN  IF 8 <= h /\ h < 11 THEN 15
        ELSE IF (11 <= h /\ h < 14) \/ (17 <= h /\ h < 19)
             THEN (IF ~(had_lunch /\ had_dinner) THEN 20 ELSE 5)
        ELSE IF 14 <= h /\ h < 17 THEN 10
        ELSE 7

\* _get_adjusted_distance_threshold, in hundredths of a kilometre
AdvThreshold(label, t) ==
    IF label \in {"attraction", "park"}
    THEN DistanceThreshold * 15 * AdvTimePriority(t)
    ELSE IF label \in {"snack", "restaurant"}
    THEN DistanceThreshold * 8 * AdvTimePriority(t)
    ELSE DistanceThreshold * 10 * AdvTimePriority(t)

\* _filter_nearby_locations, the test of one location
AdvNearby(n) == DistKm(here, n) * 100 <= AdvThreshold(Label(n), clock)

\* _has_enough_time: 30 minutes of buffer
AdvHasEnoughTime(n) ==
    end_time - clock >= TravelTime(here, n) + Dur(n) + 30

\* BusinessHours.is_open_at for the trip's weekday
BusinessIsOpenAt(hours, t) ==
    \E i \in 1..Len(hours) :
        hours[i].start <= Fmt(t) /\ Fmt(t) <= hours[i].end

\* _is_meal_time
AdvIsMealTime(t) ==
    \/ ~had_lunch /\ 11 <= HourOf(t) /\ HourOf(t) <= 13
    \/ ~had_dinner /\ 17 <= HourOf(t) /\ HourOf(t) <= 19

\* type_factor of _calculate_location_score, in tenths
AdvTypeFactor(n) ==
    IF Label(n) \in {"attraction", "park"}
    THEN (IF 9 <= HourOf(clock) /\ HourOf(clock) <= 16 THEN 15 ELSE 10)
    ELSE IF Label(n) \in {"restaurant", "snack"}
    THEN (IF AdvIsMealTime(clock) THEN 20 ELSE 3)
    ELSE 10

\* _calculate_location_score: ten times the score is AdvScoreNum / AdvScoreDen
\* (scores are only compared with each other)
AdvScoreNum(n) == Dur(n) * AdvTimePriority(clock) * AdvTypeFactor(n)

AdvScoreDen(n) == Max(10 * DistKm(here, n), 1) * Max(TravelTime(here, n), 1)

AdvCandidate(n) ==
    /\ AdvNearby(n)
    /\ AdvHasEnoughTime(n)
    /\ BusinessIsOpenAt(Hours(n), clock + TravelTime(here, n))

\* the scan of _find_best_next_location: "if score > best_score"
RECURSIVE AdvScan(_, _)
AdvScan(s, best) ==
    IF s = <<>> THEN best
    ELSE LET n == Head(s)
         IN  IF ~AdvCandidate(n) THEN AdvScan(Tail(s), best)
             ELSE IF best = NoPlace
                     \/ AdvScoreNum(n) * AdvScoreDen(best)
                          > AdvScoreNum(best) * AdvScoreDen(n)
                  THEN AdvScan(Tail(s), n)
                  ELSE AdvScan(Tail(s), best)

AdvBest == AdvScan(remaining, NoPlace)

\* the loop goes on: a place is found and its visit ends by end_datetime
AdvContinues ==
    /\ remaining # <<>> /\ clock < end_time
    /\ AdvBest # NoPlace
    /\ clock + TravelTime(here, AdvBest) + Dur(AdvBest) <= end_time

\* _update_meal_status and one iteration of the loop of plan (lines 256-296)
AdvSelect ==
    /\ planner = "advanced" /\ pc = "loop"
    /\ AdvContinues
    /\ LET b == AdvBest
           tt == TravelTime(here, b)
           arr == clock + tt
           meal == Label(b) \in MealLabels
           lunch == 11 <= HourOf(arr) /\ HourOf(arr) <= 13
           dinner == 17 <= HourOf(arr) /\ HourOf(arr) <= 19
       IN  /\ had_lunch' = SetFlag(had_lunch, meal /\ lunch)
           /\ had_dinner' = SetFlag(had_dinner, meal /\ ~lunch /\ dinner)
           /\ itinerary' = Append(itinerary,
                  Step(b, Fmt(arr), Fmt(arr + Dur(b)), Dur(b), tt, "visit"))
           /\ selected' = Append(selected, b)
           /\ remaining' = RemoveFirst(remaining, b)
           /\ here' = b
           /\ clock' = arr + Dur(b)
    /\ UNCHANGED svcVars
    /\ UNCHANGED <<locations, planner, catalog, start_time, end_time, end_point, pc, run, first>>

\* the return step of plan (lines 298-317): the arrival is clamped
AdvReturn ==
    IF here = end_point THEN <<>>
    ELSE LET tt == TravelTime(here, end_point)
             arr == IF clock + tt > end_time THEN end_time ELSE clock + tt
         IN  <<Step(end_point, Fmt(arr), Fmt(arr), 0, tt, "return")>>

\* the loop ends and the end point is added
AdvFinish ==
    /\ planner = "advanced" /\ pc = "loop"
    /\ ~AdvContinues
    /\ itinerary' = itinerary \o AdvReturn
    /\ pc' = "done"
    /\ UNCHANGED svcVars
    /\ UNCHANGED <<locations, planner, catalog, start_time, end_time, end_point, clock, here,
                   remaining, had_lunch, had_dinner, selected, run, first>>

---------------------------------------------------------------------------
(* TripPlanningSystem.plan_trip, src/main.py: the selection loop of the    *)
(* strategy (src/src/core/planner/strategy.py) followed by                 *)
(* _verify_and_adjust_itinerary                                            *)

\* GeoService._calculate_estimated_travel_info, mode 'driving':
\* int((distance / 40) * 60 * 1.4); the floating-point product and this
\* integer quotient agree on every distance between two places of the pool
GeoTravel(a, b) == (DistKm(a, b) * 21) \div 10

\* TimeCore.is_time_in_range with allow_overnight = True
IsTimeInRange(t, s, e) ==
    IF s <= e THEN s <= t /\ t <= e ELSE t >= s \/ t <= e

\* PlaceDetail.is_open_at for the trip's weekday
PlaceIsOpenAt(hours, t) ==
    /\ hours # <<>>
    /\ hours[1] # NullSlot
    /\ \E i \in 1..Len(hours) :
          /\ hours[i] # NullSlot
          /\ IsTimeInRange(Fmt(t), hours[i].start, hours[i].end)

\* a meal time that is not configured (lunch_time = None)
NoTime == -1

\* TimeService._add_minutes_to_time: the time of day of today's date and
\* base_time plus the minutes
AddMinutesToTime(base_time, minutes) == (base_time + minutes) % 1440

\* the fixed thresholds at the end of get_time_period
HourPeriod(x) ==
    IF HourOf(x) < 11 THEN "morning"
    ELSE IF HourOf(x) < 14 THEN "lunch"
    ELSE IF HourOf(x) < 17 THEN "afternoon"
    ELSE IF HourOf(x) < 20 THEN "dinner"
    ELSE "night"

\* TimeService.get_time_period of a service built with the given lunch and
\* dinner times: the lunch block, then the dinner block, which is entered
\* only when a lunch time is configured and the time is after the lunch
\* window, then the fixed thresholds
TimePeriod(lunch, dinner, x) ==
    LET lunch_start == AddMinutesToTime(lunch, -MealWindow)
        lunch_end == AddMinutesToTime(lunch, MealWindow)
        dinner_start == AddMinutesToTime(dinner, -MealWindow)
        dinner_end == AddMinutesToTime(dinner, MealWindow)
    IN  IF lunch # NoTime /\ x < lunch_start THEN "morning"
        ELSE IF lunch # NoTime /\ lunch_start <= x /\ x <= lunch_end THEN "lunch"
        ELSE IF dinner # NoTime /\ lunch # NoTime /\ x > lunch_end
        THEN (IF x < dinner_start THEN "afternoon"
              ELSE IF dinner_start <= x /\ x <= dinner_end THEN "dinner"
              ELSE "night")
        ELSE HourPeriod(x)

\* TimeService.get_time_period with lunch_time and dinner_time configured
GetTimePeriod(t) == TimePeriod(LunchTime, DinnerTime, Fmt(t))

PeriodIndex(p) ==
    CASE p = "morning" -> 0 [] p = "lunch" -> 1 [] p = "afternoon" -> 2
      [] p = "dinner" -> 3 [] OTHER -> 4

\* _calculate_rating_score, in 1/10000 (ratings are tenths of a star)
RatingScore(n) ==
    LET r == PoiPool[n].rating
    IN  IF r = 0 THEN 5000
        ELSE IF r >= 45 THEN Min(10000, Min(10000, r * 200) + (r - 45) * 100)
        ELSE Min(10000, r * 200)

\* _calculate_efficiency_score, in 1/10000
EfficiencyScore(n, tt) ==
    LET base == IF Label(n) = "attraction" THEN 12
                ELSE IF Label(n) \in {"restaurant", "snack"} THEN 18
                ELSE 15
    IN  IF tt <= 0 THEN 10000
        ELSE Min(10000, (Dur(n) * 100000) \div (tt * base))

\* the closing time of the slot that holds t; -1 for a place open all day
ClosingTime(hours, t) ==
    IF \E i \in 1..Len(hours) : hours[i] = WholeDay THEN -1
    ELSE LET i == CHOOSE j \in 1..Len(hours) :
                      /\ hours[j] # NullSlot
                      /\ IsTimeInRange(Fmt(t), hours[j].start, hours[j].end)
         IN  hours[i].end

\* _evaluate_business_hours_fit, in tenths
HoursFit(n, t) ==
    IF ~PlaceIsOpenAt(Hours(n), t) THEN 0
    ELSE LET c == ClosingTime(Hours(n), t)
             left == (c - Fmt(t)) % 1440
         IN  IF c = -1 THEN 8
             ELSE IF left < Dur(n) THEN 0
             ELSE IF 2 * left < 3 * Dur(n) THEN 5
             ELSE 10

\* _calculate_time_slot_score, in 1/10000
TimeSlotScore(n, t) ==
    LET diff == Abs(PeriodIndex(GetTimePeriod(t)) - PeriodIndex(PoiPool[n].period))
        base == IF diff = 0 THEN 10 ELSE Max(3, 10 - 2 * diff)
    IN  Min(10000, base * HoursFit(n, t) * 100)

\* _calculate_distance_score, in 1/10000
DistanceScore(n, from) ==
    LET adj == IF Label(n) = "attraction" THEN DistanceThreshold * 12
               ELSE IF Label(n) \in {"restaurant", "snack"} THEN DistanceThreshold * 8
               ELSE DistanceThreshold * 10
    IN  Max(0, Min(10000, 10000 - (DistKm(from, n) * 100000) \div adj))

\* _check_business_hours(place, current_time): the place is open at the
\* time it is handed
CheckBusinessHours(n, t) == PlaceIsOpenAt(Hours(n), t)

\* _normalize_score: the score clamped to 0..1
NormalizeScore(x) == Max(0, Min(100000, x))

\* PlaceScoring.calculate_score in 1/100000, weights 0.3 / 0.3 / 0.2 / 0.2;
\* -1 stands for float('-inf')
CalculateScore(n, from, t, tt) ==
    IF ~CheckBusinessHours(n, t) THEN -1
    ELSE NormalizeScore(3 * RatingScore(n) + 3 * EfficiencyScore(n, tt)
                          + 2 * TimeSlotScore(n, t) + 2 * DistanceScore(n, from))

\* StandardPlanningStrategy._should_arrange_meal: a configured meal time is
\* within meal_window of the clock and no restaurant visit lies in its window
MealArranged(meal) ==
    \E i \in 1..Len(itinerary) :
        /\ itinerary[i].kind = "visit"
        /\ Label(itinerary[i].name) \in {"restaurant", "snack"}
        /\ Abs(meal - itinerary[i].arrive) <= MealWindow

ShouldArrangeMeal(t) ==
    \E meal \in {LunchTime, DinnerTime} :
        Abs(meal - Fmt(t)) <= MealWindow /\ ~MealArranged(meal)

\* the places select_next_place scores: the meal filter, then score > -inf
SysAvailable ==
    IF ShouldArrangeMeal(clock)
    THEN SelectSeq(remaining, LAMBDA n : Label(n) \in {"restaurant", "snack"})
    ELSE remaining

SysScore(n) == CalculateScore(n, here, clock, GeoTravel(here, n))

SysScored == SelectSeq(SysAvailable, LAMBDA n : SysScore(n) > -1)

\* position of a scored place after the stable sort by score, descending
SysRank(i) ==
    Cardinality({j \in 1..Len(SysScored) :
        \/ SysScore(SysScored[j]) > SysScore(SysScored[i])
        \/ SysScore(SysScored[j]) = SysScore(SysScored[i]) /\ j < i})

\* top_places = scored_places[:3]; random.choice picks any of them
SelectNextPlace == {SysScored[i] : i \in {j \in 1..Len(SysScored) : SysRank(j) < TopPlaces}}

\* _calculate_arrival_time and _calculate_departure_time
CalculateArrivalTime(t, tt) == t + tt

CalculateDepartureTime(arr, dwell) == arr + dwell

\* _create_itinerary_item: the step of a visit, times as 'HH:MM'
CreateItineraryItem(n, arr, dep, tt) ==
    Step(n, Fmt(arr), Fmt(dep), Dur(n), tt, "visit")

\* _is_reasonable_meal_time: the time is within the window of a meal time
IsReasonableMealTime(t) ==
    \E meal \in {LunchTime, DinnerTime} : Abs(meal - Fmt(t)) <= MealWindow

\* StandardPlanningStrategy.is_feasible
IsFeasible(n) ==
    LET tt == GeoTravel(here, n)
        dep == CalculateDepartureTime(CalculateArrivalTime(clock, tt), Dur(n))
    IN  /\ dep <= end_time
        /\ ~(/\ Len(selected) >= MaxContinuousVisits
             /\ \A i \in (Len(selected) - 2)..Len(selected) :
                    Label(selected[i]) = "attraction")
        /\ Label(n) \in {"restaurant", "snack"} =>
              IsReasonableMealTime(CalculateArrivalTime(clock, tt))
        /\ tt > 60 => Label(n) = "attraction"

\* BasePlanningStrategy.execute, one iteration that appends a visit
SysSelect ==
    /\ planner = "system" /\ pc = "loop"
    /\ remaining # <<>> /\ clock < end_time
    /\ \E n \in SelectNextPlace :
          /\ IsFeasible(n)
          /\ LET tt == GeoTravel(here, n)
                 arr == CalculateArrivalTime(clock, tt)
                 dep == CalculateDepartureTime(arr, Dur(n))
             IN  /\ itinerary' = Append(itinerary, CreateItineraryItem(n, arr, dep, tt))
                 /\ clock' = dep
          /\ here' = n
          /\ remaining' = RemoveFirst(remaining, n)
          /\ selected' = Append(selected, n)
    /\ UNCHANGED svcVars
    /\ UNCHANGED <<locations, planner, catalog, start_time, end_time, end_point, pc,
                   had_lunch, had_dinner, run, first>>

\* execute: the place picked is not feasible, the loop breaks
SysInfeasible ==
    /\ planner = "system" /\ pc = "loop"
    /\ remaining # <<>> /\ clock < end_time
    /\ \E n \in SelectNextPlace : ~IsFeasible(n)
    /\ pc' = "adjust"
    /\ UNCHANGED svcVars
    /\ UNCHANGED <<locations, planner, catalog, start_time, end_time, end_point, clock, here,
                   remaining, had_lunch, had_dinner, selected, itinerary, run, first>>

\* execute: the loop condition is false or select_next_place returns None
SysLoopEnd ==
    /\ planner = "system" /\ pc = "loop"
    /\ remaining = <<>> \/ clock >= end_time \/ SelectNextPlace = {}
    /\ pc' = "adjust"
    /\ UNCHANGED svcVars
    /\ UNCHANGED <<locations, planner, catalog, start_time, end_time, end_point, clock, here,
                   remaining, had_lunch, had_dinner, selected, itinerary, run, first>>

\* _verify_and_adjust_itinerary (main.py lines 360-437)

\* TripPlanner.get_travel_info: the travel minutes of the strategy's
\* _calculate_travel_info, the estimate of the travel oracle
GetTravelInfo(a, b) == GeoTravel(a, b)

\* travel from the last step to the end point, and the arrival there
ReturnTravel == GetTravelInfo(Last(itinerary).name, end_point)

EndArrival == Last(itinerary).depart + ReturnTravel

Overshoots == EndArrival > end_time

\* a trim that lengthens the dwell
LongerDuration(d) == d + TrimStep

\* the dwell a trimmed visit gets: max(min_duration, duration - 30)
ReducedDuration(d) == Max(MinDuration, d - TrimStep)

\* a test that trims only a dwell above one hour
CanTrimAboveHour(d) == d > 60

\* a visit may be trimmed when its dwell is above min_duration
CanTrim(d) == d > MinDuration

\* len(itinerary) <= 1: the itinerary is returned as it is
SysOriginOnly ==
    /\ planner = "system" /\ pc = "adjust"
    /\ Len(itinerary) <= 1
    /\ pc' = "done"
    /\ UNCHANGED svcVars
    /\ UNCHANGED <<locations, planner, catalog, start_time, end_time, end_point, clock, here,
                   remaining, had_lunch, had_dinner, selected, itinerary, run, first>>

\* the return leg fits: the return step is appended
SysReturn ==
    /\ planner = "system" /\ pc = "adjust"
    /\ Len(itinerary) > 1
    /\ ~Overshoots
    /\ itinerary' = Append(itinerary,
           Step(end_point, Fmt(EndArrival), Fmt(EndArrival), 0, ReturnTravel, "return"))
    /\ pc' = "done"
    /\ UNCHANGED svcVars
    /\ UNCHANGED <<locations, planner, catalog, start_time, end_time, end_point, clock, here,
                   remaining, had_lunch, had_dinner, selected, run, first>>

\* the return leg overshoots and the last dwell is above the floor: trim it
SysTrim ==
    /\ planner = "system" /\ pc = "adjust"
    /\ Len(itinerary) > 1
    /\ Overshoots
    /\ CanTrim(Last(itinerary).dwell)
    /\ LET last == Last(itinerary)
           d == ReducedDuration(last.dwell)
       IN  itinerary' = [itinerary EXCEPT ![Len(itinerary)] =
               [last EXCEPT !.dwell = d, !.depart = Fmt(last.arrive + d)]]
    /\ UNCHANGED svcVars
    /\ UNCHANGED <<locations, planner, catalog, start_time, end_time, end_point, pc, clock, here,
                   remaining, had_lunch, had_dinner, selected, run, first>>

\* the last dwell is at the floor: the last point is popped, another remains
SysPop ==
    /\ planner = "system" /\ pc = "adjust"
    /\ Len(itinerary) > 1
    /\ Overshoots
    /\ ~CanTrim(Last(itinerary).dwell)
    /\ Len(itinerary) - 1 > 1
    /\ itinerary' = Front(itinerary)
    /\ UNCHANGED svcVars
    /\ UNCHANGED <<locations, planner, catalog, start_time, end_time, end_point, pc, clock, here,
                   remaining, had_lunch, had_dinner, selected, run, first>>

\* the last point is popped and only the origin is left: RuntimeError
SysFail ==
    /\ planner = "system" /\ pc = "adjust"
    /\ Len(itinerary) > 1
    /\ Overshoots
    /\ ~CanTrim(Last(itinerary).dwell)
    /\ Len(itinerary) - 1 <= 1
    /\ itinerary' = Front(itinerary)
    /\ pc' = "failed"
    /\ UNCHANGED svcVars
    /\ UNCHANGED <<locations, planner, catalog, start_time, end_time, end_point, clock, here,
                   remaining, had_lunch, had_dinner, selected, run, first>>

---------------------------------------------------------------------------
(* A second run of the same planner on the same request *)

NoRun == [pc |-> "none", itinerary |-> <<>>]

Rerun ==
    /\ pc \in {"done", "failed"}
    /\ run = 1
    /\ run' = 2
    /\ first' = [pc |-> pc, itinerary |-> itinerary]
    /\ pc' = "loop"
    /\ clock' = start_time
    /\ here' = Origin
    /\ remaining' = catalog
    /\ had_lunch' = FALSE
    /\ had_dinner' = FALSE
    /\ selected' = <<>>
    /\ itinerary' = IF planner = "core" THEN <<>> ELSE <<OriginStep>>
    /\ UNCHANGED svcVars
    /\ UNCHANGED <<locations, planner, catalog, start_time, end_time, end_point>>

\* AdvancedTripPlanner.plan called again on the same object: the method
\* starts from its local current_time, current_location and itinerary, and
\* goes on with the available_locations, selected_locations, had_lunch and
\* had_dinner the first call left on the object
AdvPlanAgain ==
    /\ planner = "advanced"
    /\ pc = "done"
    /\ run = 1
    /\ run' = 3
    /\ first' = [pc |-> pc, itinerary |-> itinerary]
    /\ pc' = "loop"
    /\ clock' = start_time
    /\ here' = Origin
    /\ itinerary' = <<OriginStep>>
    /\ UNCHANGED svcVars
    /\ UNCHANGED <<locations, planner, catalog, start_time, end_time, end_point,
                   remaining, had_lunch, had_dinner, selected>>

---------------------------------------------------------------------------
(* Inputs *)

---------------------------------------------------------------------------
(* The travel oracle: GeoService.get_route behind geo_cache                *)
(* (src/src/core/services/geo_service.py,                                  *)
(*  src/src/core/utils/cache_decorator.py).                                *)
(* A coordinate is a latitude in units of 1/100000 degree north of the     *)
(* origin's parallel (all points lie on one meridian); a departure time is *)
(* the minute of the day.  The dict of geo_cache is created once, when the *)
(* class body is decorated, so every GeoService object and every planning  *)
(* run of the process works on the same dict.                              *)

\* capacity of the cache, maxsize of geo_cache (256 in the source)
CacheMaxSize == 2

\* GeoService objects that are alive together, one per planning run
Instances == {1, 2}

\* how the caller passes the arguments: all by position, origin and
\* destination by position and mode by keyword, or all by keyword
CallStyles == {"positional", "mixed", "keyword"}

Modes == {"driving", "walking"}

\* the requests of the model: two origins that agree to four decimals, one
\* destination a tenth of a degree north and one with latitude 91
RouteRequests ==
    { r \in [inst : Instances, style : CallStyles, origin : {0, 1},
             destination : {10000, 9100000}, mode : Modes, dep : {540, 570}] :
        /\ r.style # "keyword" => r.dep = 540
        /\ r.style = "mixed" =>
              r.inst = 1 /\ r.origin = 0 /\ r.mode = "driving"
        /\ r.style = "keyword" =>
              r.inst = 1 /\ r.mode = "driving" /\ r.origin = 0
        /\ r.mode = "walking" => r.inst = 1 /\ r.origin = 0
        /\ r.destination = 9100000 =>
              r.inst = 1 /\ r.origin = 0 /\ r.mode = "driving" }

\* GeoService.validate_coordinates (latitude)
ValidateCoordinates(p) == -9000000 <= p /\ p <= 9000000

\* GeoService.calculate_distance in tenths of a kilometre:
\* round(EARTH_RADIUS * c, 1), one degree of latitude being 111.195 km
GeoDistance(a, b) == (Abs(a - b) * 111195 + 5000000) \div 10000000

\* DEFAULT_SPEEDS
DefaultSpeed(mode) ==
    CASE mode = "driving" -> 40 [] mode = "transit" -> 30
      [] mode = "walking" -> 5 [] mode = "bicycling" -> 15 [] OTHER -> 30

\* a travel-info result and a raised exception
TravelInfo(minutes, estimated) ==
    [kind |-> "info", minutes |-> minutes, is_estimated |-> estimated]
Raised(name) == [kind |-> name, minutes |-> 0, is_estimated |-> FALSE]

\* GeoService._calculate_estimated_travel_info:
\* int((distance / speed) * 60 * time_factor); calculate_distance raises
\* ValueError for a coordinate out of range
CalculateEstimatedTravelInfo(origin, destination, mode) ==
    IF ~(ValidateCoordinates(origin) /\ ValidateCoordinates(destination))
    THEN Raised("ValueError")
    ELSE LET factor == IF mode = "driving" THEN 14 ELSE 13
         IN  TravelInfo((GeoDistance(origin, destination) * 60 * factor)
                            \div (DefaultSpeed(mode) * 100), TRUE)

\* what the directions provider answers: a duration, or an exception; for a
\* coordinate that does not exist it has no route and raises
ProviderMinutes == {25}
ProviderMayAnswer(r) ==
    ValidateCoordinates(r.origin) /\ ValidateCoordinates(r.destination)

\* a get_route that lets the provider's exception through
RouteBodyNoFallback(r, raises, minutes) ==
    IF has_google_maps
    THEN (IF raises THEN Raised("RuntimeError") ELSE TravelInfo(minutes, FALSE))
    ELSE CalculateEstimatedTravelInfo(r.origin, r.destination, r.mode)

\* the body of GeoService.get_route: the provider when has_google_maps,
\* any exception of it swallowed, then the estimate
RouteBody(r, raises, minutes) ==
    IF has_google_maps /\ ~raises
    THEN TravelInfo(minutes, FALSE)
    ELSE CalculateEstimatedTravelInfo(r.origin, r.destination, r.mode)

\* make_cache_key.  With three or more positional arguments (self counted)
\* the key is built from args[1:4]: the coordinates as written and the
\* mode, without self and without the departure time; when the mode is not
\* positional the unpacking of args[1:4] raises ValueError.  With keyword
\* arguments the key is the hash of str(args), which is the repr of self,
\* and of the sorted keyword items, departure time included.
NoKey == [style |-> "none", inst |-> 0, origin |-> 0, destination |-> 0,
          mode |-> "none", dep |-> 0]
MakeCacheKey(r) ==
    CASE r.style = "positional" ->
            [style |-> "positional", inst |-> 0, origin |-> r.origin,
             destination |-> r.destination, mode |-> r.mode, dep |-> 0]
      [] r.style = "keyword" ->
            [style |-> "keyword", inst |-> r.inst, origin |-> r.origin,
             destination |-> r.destination, mode |-> r.mode, dep |-> r.dep]
      [] OTHER -> NoKey

\* position of a key in a list of entries or of keys, 0 if absent
CacheIndex(key) ==
    IF \E i \in 1..Len(cache) : cache[i].key = key
    THEN CHOOSE i \in 1..Len(cache) : cache[i].key = key
    ELSE 0

\* the recency list after a use of key: key becomes the most recent
Touch(keys, key) ==
    Append(SelectSeq(keys, LAMBDA k : k # key), key)

\* the outcome of a call as the caller and the history see it
\* (source is the request whose call stored the entry that a hit returns)
NoRequest == [inst |-> 0, style |-> "none", origin |-> 0, destination |-> 0,
              mode |-> "none", dep |-> 0]
Reply(r, out, hit, source, provider, evicted) ==
    [out |-> out, hit |-> hit, source |-> source, request |-> r,
     provider |-> provider, evicted |-> evicted]
NoReply == Reply(NoRequest, Raised("none"), FALSE, NoRequest, "not called", FALSE)

\* a cache that drops nothing
NoEvict(entries) == entries

\* "if len(cache) > maxsize: cache.pop(next(iter(cache)))": the entry
\* inserted first is dropped
Evict(entries) ==
    IF Len(entries) > CacheMaxSize THEN Tail(entries) ELSE entries

\* the wrapper of geo_cache around get_route
GetRoute ==
    \E r \in RouteRequests, raises \in BOOLEAN, minutes \in ProviderMinutes :
        LET key == MakeCacheKey(r)
            at == CacheIndex(key)
            out == RouteBody(r, raises, minutes)
            provider == IF ~has_google_maps THEN "not called"
                        ELSE IF raises THEN "raised" ELSE "answered"
            stored == Append(cache, [key |-> key, info |-> out, request |-> r])
        IN  /\ raises \/ ProviderMayAnswer(r)
            /\ IF r.style = "mixed"
               THEN /\ reply' = Reply(r, Raised("ValueError"), FALSE, NoRequest,
                                    "not called", FALSE)
                    /\ UNCHANGED <<cache, recency>>
               ELSE IF at # 0
               THEN /\ reply' = Reply(r, cache[at].info, TRUE, cache[at].request,
                                    "not called", FALSE)
                    /\ recency' = Touch(recency, key)
                    /\ UNCHANGED cache
               ELSE IF out.kind # "info"
               THEN /\ reply' = Reply(r, out, FALSE, NoRequest, provider, FALSE)
                    /\ UNCHANGED <<cache, recency>>
               ELSE /\ reply' = Reply(r, out, FALSE, NoRequest, provider,
                                    Len(stored) > CacheMaxSize)
                    /\ cache' = Evict(stored)
                    /\ recency' =
                          IF Len(stored) > CacheMaxSize
                          THEN Touch(SelectSeq(recency,
                                         LAMBDA k : k # stored[1].key), key)
                          ELSE Touch(recency, key)
            /\ UNCHANGED <<has_google_maps, call>>
            /\ UNCHANGED runVars

---------------------------------------------------------------------------
(* Library functions on times of day (src/src/core/utils/time_core.py,     *)
(* src/src/core/services/time_service.py, src/src/core/models/place.py).   *)
(* A time object is its minute of the day, 0..1439.                        *)

\* the record of a call: the arguments used by the function called and its
\* outcome (raised is the name of the exception, "" when it returned)
NoCall ==
    [op |-> "none", a |-> 0, b |-> 0, c |-> 0, hours |-> <<>>, text |-> <<>>,
     text2 |-> <<>>, raised |-> "", num |-> 0, flag |-> FALSE, str |-> "",
     raw |-> <<>>, stored |-> <<>>]

\* times of day given to the functions
ClockTimes == {0, 10, 60, 120, 121, 540, 600, 750, 810, 1020, 1230, 1410}

\* minute offsets given to add_minutes
MinuteOffsets == {-1500, -90, -30, 0, 30, 90, 1500}

\* slot lists of one weekday: no slot, a closed day, an overnight slot, a
\* null entry before and after a slot, two slots
SlotLists ==
    { <<>>, <<NullSlot>>, <<Slot(1020, 120)>>,
      <<NullSlot, Slot(540, 1020)>>, <<Slot(540, 1020), NullSlot>>,
      <<Slot(540, 720), Slot(1020, 120)>> }

\* PlaceDetail.is_open_at(day, time_str) on the slot list of the day
IsOpenAt ==
    \E hours \in SlotLists, t \in ClockTimes :
        /\ call' = [NoCall EXCEPT !.op = "is_open_at", !.hours = hours, !.a = t,
                                  !.flag = PlaceIsOpenAt(hours, t)]
        /\ UNCHANGED <<cache, recency, has_google_maps, reply>>
        /\ UNCHANGED runVars

\* TimeCore.add_minutes: datetime.combine(datetime.min, t) is 0001-01-01 at
\* t, the earliest date there is, so a sum before that midnight raises
\* OverflowError
AddMinutes ==
    \E t \in ClockTimes, minutes \in MinuteOffsets :
        /\ call' = IF t + minutes < 0
                   THEN [NoCall EXCEPT !.op = "add_minutes", !.a = t, !.b = minutes,
                                       !.raised = "OverflowError"]
                   ELSE [NoCall EXCEPT !.op = "add_minutes", !.a = t, !.b = minutes,
                                       !.num = (t + minutes) % 1440]
        /\ UNCHANGED <<cache, recency, has_google_maps, reply>>
        /\ UNCHANGED runVars

\* TimeService._add_minutes_to_time as a call of its own
AddMinutesToTimeCall ==
    \E t \in ClockTimes, minutes \in MinuteOffsets :
        /\ call' = [NoCall EXCEPT !.op = "_add_minutes_to_time", !.a = t,
                                  !.b = minutes,
                                  !.num = AddMinutesToTime(t, minutes)]
        /\ UNCHANGED <<cache, recency, has_google_maps, reply>>
        /\ UNCHANGED runVars

\* TimeCore.calculate_duration (TimeHandler.calculate_duration is the same)
Duration(start, end, allow_overnight) ==
    IF end < start /\ allow_overnight
    THEN (24 * 60 - start) + end
    ELSE end - start

CalculateDuration ==
    \E start \in ClockTimes, end \in ClockTimes, allow_overnight \in BOOLEAN :
        /\ call' = [NoCall EXCEPT !.op = "calculate_duration", !.a = start,
                                  !.b = end, !.flag = allow_overnight,
                                  !.num = Duration(start, end, allow_overnight)]
        /\ UNCHANGED <<cache, recency, has_google_maps, reply>>
        /\ UNCHANGED runVars

\* meal times a TimeService is built with
LunchTimes == {NoTime, LunchTime}
DinnerTimes == {NoTime, DinnerTime, 1200}

\* TimeService(lunch_time, dinner_time).get_time_period(check_time)
GetTimePeriodCall ==
    \E lunch \in LunchTimes, dinner \in DinnerTimes, t \in ClockTimes :
        /\ call' = [NoCall EXCEPT !.op = "get_time_period", !.a = lunch,
                                  !.b = dinner, !.c = t,
                                  !.str = TimePeriod(lunch, dinner, t)]
        /\ UNCHANGED <<cache, recency, has_google_maps, reply>>
        /\ UNCHANGED runVars

---------------------------------------------------------------------------
(* Validation of the times of a requirement                                *)
(* (src/src/core/planner/validator.py, src/src/core/utils/time_core.py,    *)
(*  src/src/core/models/trip.py, src/main.py, src/src/core/planner/base.py)*)
(* A time string is the sequence of its characters.                        *)

Digits == <<"0", "1", "2", "3", "4", "5", "6", "7", "8", "9">>

IsDigit(c) == \E i \in 1..Len(Digits) : Digits[i] = c

\* int(c) of a digit
DigitValue(c) == (CHOOSE i \in 1..Len(Digits) : Digits[i] = c) - 1

\* ord(c) as far as comparing the characters of the model goes:
\* newline, then the digits, then the colon
Ord(c) == IF c = "\n" THEN 0 ELSE IF c = ":" THEN 11 ELSE DigitValue(c) + 1

\* the time strings given to the validators
TimeStrings ==
    { <<"0", "9", ":", "0", "0">>, <<"1", "0", ":", "0", "0">>,
      <<"1", "8", ":", "0", "0">>, <<"2", "3", ":", "5", "9">>,
      <<"2", "5", ":", "0", "0">>, <<"1", "2", ":", "6", "0">>,
      <<"9", ":", "3", "0">>, <<"0", "9", ":", "5">>,
      <<"0", "9", "0", "0">>, <<>>,
      <<"0", "9", ":", "0", "0", "\n">> }

\* re.match of TIME_PATTERN '^([01][0-9]|2[0-3]):[0-5][0-9]$', where $ also
\* matches before a newline that ends the string
MatchesTimePattern(s) ==
    /\ \/ Len(s) = 5
       \/ Len(s) = 6 /\ s[6] = "\n"
    /\ \/ s[1] \in {"0", "1"} /\ IsDigit(s[2])
       \/ s[1] = "2" /\ s[2] \in {"0", "1", "2", "3"}
    /\ s[3] = ":"
    /\ s[4] \in {"0", "1", "2", "3", "4", "5"}
    /\ IsDigit(s[5])

\* TimeCore.validate_time_str
ValidateTimeStr(s) == MatchesTimePattern(s)

\* datetime.strptime(s, '%H:%M'): one or two digits of hour up to 23, a
\* colon, one or two digits of minute up to 59, and nothing after them
StrptimeHour(s, colon) ==
    IF colon = 2 THEN DigitValue(s[1])
    ELSE DigitValue(s[1]) * 10 + DigitValue(s[2])
StrptimeMinute(s, colon) ==
    IF Len(s) = colon + 1 THEN DigitValue(s[colon + 1])
    ELSE DigitValue(s[colon + 1]) * 10 + DigitValue(s[colon + 2])
StrptimeColon(s) ==
    IF \E p \in {2, 3} :
          /\ Len(s) \in {p + 1, p + 2}
          /\ s[p] = ":"
          /\ \A i \in (1..Len(s)) \ {p} : IsDigit(s[i])
    THEN CHOOSE p \in {2, 3} : Len(s) >= p /\ s[p] = ":"
    ELSE 0
StrptimeOk(s) ==
    /\ StrptimeColon(s) # 0
    /\ StrptimeHour(s, StrptimeColon(s)) <= 23
    /\ StrptimeMinute(s, StrptimeColon(s)) <= 59
Strptime(s) ==
    StrptimeHour(s, StrptimeColon(s)) * 60 + StrptimeMinute(s, StrptimeColon(s))

\* a < b of two str objects
StrLess(a, b) ==
    \E k \in 1..(Len(b)) :
        /\ \A i \in 1..(k - 1) : i <= Len(a) /\ a[i] = b[i]
        /\ \/ Len(a) = k - 1
           \/ Len(a) >= k /\ Ord(a[k]) < Ord(b[k])

\* InputValidator._validate_time_format: it calls validate_time_str and
\* drops the answer (kept here in flag), so it returns for every string
ValidateTimeFormat ==
    \E s \in TimeStrings :
        /\ call' = [NoCall EXCEPT !.op = "_validate_time_format", !.text = s,
                                  !.flag = ValidateTimeStr(s), !.raised = ""]
        /\ UNCHANGED <<cache, recency, has_google_maps, reply>>
        /\ UNCHANGED runVars

\* field validator of TripRequirement for start_time and end_time
TripRequirementAccepts(start, end) ==
    MatchesTimePattern(start) /\ MatchesTimePattern(end)

\* InputValidator.validate_requirement.  A TripRequirement object (built
\* earlier, so its times passed the field validator) is returned as it is;
\* a dict with all fields has its times parsed and compared, and is then
\* turned into a TripRequirement
ValidateRequirement ==
    \E start \in TimeStrings, end \in TimeStrings, is_object \in BOOLEAN :
        /\ is_object => TripRequirementAccepts(start, end)
        /\ call' = [NoCall EXCEPT
                      !.op = "validate_requirement", !.text = start,
                      !.text2 = end, !.flag = is_object,
                      !.raised =
                          IF is_object THEN ""
                          ELSE IF ~(StrptimeOk(start) /\ StrptimeOk(end))
                          THEN "ValueError"
                          ELSE IF Strptime(start) >= Strptime(end)
                          THEN "ValueError"
                          ELSE IF ~TripRequirementAccepts(start, end)
                          THEN "ValueError"
                          ELSE ""]
        /\ UNCHANGED <<cache, recency, has_google_maps, reply>>
        /\ UNCHANGED runVars

\* TripPlanningSystem.set_default_requirement: the two strings are compared
\* as strings
SetDefaultRequirement ==
    \E start \in TimeStrings, end \in TimeStrings :
        /\ call' = [NoCall EXCEPT
                      !.op = "set_default_requirement", !.text = start,
                      !.text2 = end,
                      !.raised = IF ~StrLess(start, end) THEN "ValueError"
                                 ELSE ""]
        /\ UNCHANGED <<cache, recency, has_google_maps, reply>>
        /\ UNCHANGED runVars

\* TripPlanner.plan up to the planning strategy: the times are parsed,
\* _validate_time_range compares them, and the list of places must not be
\* empty
PlanValidation ==
    \E start \in TimeStrings, end \in TimeStrings, has_locations \in BOOLEAN :
        /\ call' = [NoCall EXCEPT
                      !.op = "plan", !.text = start, !.text2 = end,
                      !.flag = has_locations,
                      !.raised =
                          IF ~(StrptimeOk(start) /\ StrptimeOk(end))
                          THEN "ValueError"
                          ELSE IF ~(Strptime(start) < Strptime(end))
                          THEN "ValueError"
                          ELSE IF ~has_locations THEN "ValueError"
                          ELSE ""]
        /\ UNCHANGED <<cache, recency, has_google_maps, reply>>
        /\ UNCHANGED runVars

RECURSIVE SeqsUpTo(_, _)
SeqsUpTo(S, k) ==
    IF k = 0 THEN {<<>>}
    ELSE LET shorter == SeqsUpTo(S, k - 1)
         IN  shorter \cup
             {Append(s, x) : s \in shorter, x \in S}

Injective(s) == \A i, j \in 1..Len(s) : i # j => s[i] # s[j]

Catalogs == {s \in SeqsUpTo(PoiNames, MaxCatalog) : s # <<>> /\ Injective(s)}

StartTimes == {540, 660, 1140}
EndTimes == {670, 710, 780, 1080, 1260}

SingleSlot(n) == Len(Hours(n)) = 1 /\ Hours(n)[1] # NullSlot

---------------------------------------------------------------------------
(* Validation of the opening hours of a place record                       *)
(* (PlaceDetail.validate_hours of src/src/core/models/place.py and of      *)
(*  src/src/core/models.py).  A raw slot holds its two time strings.       *)

\* longest slot list of a weekday given to the validators
MaxSlots == 2

\* the entry None of a slot list
NoneSlot == [start |-> <<>>, end |-> <<>>]

RawSlot(s, e) == [start |-> s, end |-> e]

Midnight == <<"0", "0", ":", "0", "0">>

LastMinute == <<"2", "3", ":", "5", "9">>

Nine == <<"0", "9", ":", "0", "0">>

Seventeen == <<"1", "7", ":", "0", "0">>

\* the entries of the slot lists: None, a day slot, two slots that end
\* before they start, one of them at 00:00, and a slot with hour 25
RawEntries ==
    { NoneSlot, RawSlot(Nine, Seventeen), RawSlot(Seventeen, Nine),
      RawSlot(Seventeen, Midnight),
      RawSlot(<<"2", "5", ":", "0", "0">>, Seventeen) }

RawSlotLists == SeqsUpTo(RawEntries, MaxSlots)

\* the two PlaceDetail classes of the repository
PlaceClasses == {"models/place.py", "models.py"}

\* the test both validators apply to a time string of a slot
HoursTimeOk(class, s) ==
    IF class = "models/place.py" THEN ValidateTimeStr(s)
    ELSE MatchesTimePattern(s)

\* the slot as the validator leaves it: models.py rewrites an end of 00:00
\* to 23:59, models/place.py rewrites nothing
StoredSlot(class, slot) ==
    IF /\ class = "models.py"
       /\ slot # NoneSlot
       /\ Strptime(slot.end) = 0
    THEN [slot EXCEPT !.end = LastMinute]
    ELSE slot

\* the validator raises: the key is not a weekday, or a time string of a
\* slot is malformed (models.py then parses both strings with strptime)
HoursRejected(class, day, raw) ==
    \/ ~(1 <= day /\ day <= 7)
    \/ \E i \in 1..Len(raw) :
          /\ raw[i] # NoneSlot
          /\ \/ ~HoursTimeOk(class, raw[i].start)
             \/ ~HoursTimeOk(class, raw[i].end)
             \/ class = "models.py"
                  /\ ~(StrptimeOk(raw[i].start) /\ StrptimeOk(raw[i].end))

\* PlaceDetail(..., hours = {day: raw}): validate_hours on the slot list
ValidateHours ==
    \E class \in PlaceClasses, day \in {1, 8}, raw \in RawSlotLists :
        /\ call' = IF HoursRejected(class, day, raw)
                   THEN [NoCall EXCEPT !.op = "validate_hours", !.str = class,
                                       !.a = day, !.raw = raw,
                                       !.raised = "ValueError"]
                   ELSE [NoCall EXCEPT !.op = "validate_hours", !.str = class,
                                       !.a = day, !.raw = raw,
                                       !.stored = [i \in 1..Len(raw) |->
                                                     StoredSlot(class, raw[i])]]
        /\ UNCHANGED <<cache, recency, has_google_maps, reply>>
        /\ UNCHANGED runVars

Init ==
    /\ planner \in {"core", "advanced", "system"}
    /\ catalog \in Catalogs
    /\ planner = "core" => \A i \in 1..Len(catalog) : SingleSlot(catalog[i])
    /\ start_time \in StartTimes
    /\ end_time \in EndTimes
    /\ start_time < end_time
    /\ end_point \in {Origin, Hotel}
    /\ pc = "loop"
    /\ clock = start_time
    /\ here = Origin
    /\ remaining = catalog
    /\ had_lunch = FALSE
    /\ had_dinner = FALSE
    /\ selected = <<>>
    /\ itinerary = IF planner = "core" THEN <<>> ELSE <<OriginStep>>
    /\ run = 1
    /\ first = NoRun
    /\ locations = [n \in {catalog[i] : i \in 1..Len(catalog)} |-> NoMealKeys]
    /\ cache = <<>>
    /\ recency = <<>>
    /\ has_google_maps = FALSE
    /\ reply = NoReply
    /\ call = NoCall

Next ==
    \/ CoreSelect
    \/ CoreBuild
    \/ AdvSelect
    \/ AdvFinish
    \/ SysSelect
    \/ SysInfeasible
    \/ SysLoopEnd
    \/ SysOriginOnly
    \/ SysReturn
    \/ SysTrim
    \/ SysPop
    \/ SysFail
    \/ Rerun
    \/ AdvPlanAgain

Spec == Init /\ [][Next]_vars

\* no planning run in progress
Idle ==
    /\ planner = "none"
    /\ catalog = <<>>
    /\ start_time = 540
    /\ end_time = 1260
    /\ end_point = Origin
    /\ pc = "idle"
    /\ clock = 540
    /\ here = Origin
    /\ remaining = <<>>
    /\ had_lunch = FALSE
    /\ had_dinner = FALSE
    /\ selected = <<>>
    /\ itinerary = <<>>
    /\ run = 1
    /\ first = NoRun
    /\ locations = <<>>

\* the travel oracle on its own: calls of get_route through the GeoService
\* objects of one process; GOOGLE_MAPS_API_KEY is one setting of the
\* process, so the objects agree on has_google_maps
OracleInit ==
    /\ Idle
    /\ cache = <<>>
    /\ recency = <<>>
    /\ has_google_maps \in BOOLEAN
    /\ reply = NoReply
    /\ call = NoCall

OracleNext == GetRoute

OracleSpec == OracleInit /\ [][OracleNext]_vars

\* the library functions on their own, each called with arguments of the
\* sets above
LibInit ==
    /\ Idle
    /\ cache = <<>>
    /\ recency = <<>>
    /\ has_google_maps = FALSE
    /\ reply = NoReply
    /\ call = NoCall

LibNext ==
    \/ IsOpenAt
    \/ AddMinutes
    \/ AddMinutesToTimeCall
    \/ CalculateDuration
    \/ GetTimePeriodCall
    \/ ValidateTimeFormat
    \/ ValidateRequirement
    \/ SetDefaultRequirement
    \/ PlanValidation
    \/ ValidateHours

LibSpec == LibInit /\ [][LibNext]_vars

---------------------------------------------------------------------------
(* Properties of the returned itinerary *)

\* the run has returned an itinerary
Returned == pc = "done"

VisitIndexes == {i \in 1..Len(itinerary) : itinerary[i].kind = "visit"}

\* C1: the final step of a returned itinerary departs no later than
\* end_time, and a return step is present only when the departure of the
\* step before it plus the return travel is no later than end_time.
C1_FinalDepartWithinEnd ==
    Returned =>
        /\ Last(itinerary).depart <= end_time
        /\ Last(itinerary).kind = "return" =>
              itinerary[Len(itinerary) - 1].depart + Last(itinerary).travel <= end_time

\* C2: in a returned itinerary every step arrives at the departure of the
\* step before it plus its own recorded travel minutes.
C2_ArrivalIsDeparturePlusTravel ==
    Returned =>
        \A i \in 1..(Len(itinerary) - 1) :
            itinerary[i + 1].arrive = Fmt(itinerary[i].depart + itinerary[i + 1].travel)

\* the window [a, d] of a visit lies in the slot, an overnight slot wraps
WindowInSlot(a, d, slot) ==
    /\ slot # NullSlot
    /\ IF slot.start <= slot.end
       THEN slot.start <= a /\ a <= d /\ d <= slot.end
       ELSE \/ slot.start <= a /\ (a <= d \/ d <= slot.end)
            \/ a <= d /\ d <= slot.end

\* C3: every visit step of a returned itinerary has its arrive-depart
\* window inside one opening-hours slot of its POI.
C3_VisitsInsideOpeningHours ==
    Returned =>
        \A i \in VisitIndexes :
            \E k \in 1..Len(Hours(itinerary[i].name)) :
                WindowInSlot(itinerary[i].arrive, itinerary[i].depart,
                             Hours(itinerary[i].name)[k])

\* C4: every visit step of a returned itinerary is at most
\* distance_threshold kilometres from the place of the step before it.
C4_VisitsWithinDistanceThreshold ==
    Returned =>
        \A i \in VisitIndexes :
            DistKm(itinerary[i - 1].name, itinerary[i].name) <= DistanceThreshold

VisitCount == Cardinality(VisitIndexes)

HadLunch == IF planner = "system" THEN MealArranged(LunchTime) ELSE had_lunch
HadDinner == IF planner = "system" THEN MealArranged(DinnerTime) ELSE had_dinner

MealDue ==
    \/ GetTimePeriod(clock) = "lunch" /\ ~HadLunch
    \/ GetTimePeriod(clock) = "dinner" /\ ~HadDinner

\* C6: a place selected at a step whose period is lunch (dinner) while
\* had_lunch (had_dinner) is false has a meal-capable label.
C6_MealPeriodSelectsMealPlace ==
    [][(pc = "loop" /\ MealDue /\ Len(selected') = Len(selected) + 1)
          => Label(Last(selected')) \in MealLabels]_vars

\* C7: a second run on the same request ends as the first run ended, with
\* the same itinerary.
C7_SecondRunSameItinerary ==
    (run = 2 /\ pc \in {"done", "failed"}) =>
        first = [pc |-> pc, itinerary |-> itinerary]

\* C8: in the return-leg adjustment, while the return leg overshoots
\* end_time a last visit whose dwell is above 30 minutes is shortened by 30
\* minutes (not below 30) and kept, and a step is removed only when its dwell
\* is at most 30 minutes and the return leg still overshoots.
C8_TrimInStepsThenPop ==
    [][(planner = "system" /\ pc = "adjust" /\ Len(itinerary) > 1) =>
          LET last == Last(itinerary)
              late == last.depart + GeoTravel(last.name, end_point) > end_time
              n == Len(itinerary)
          IN  /\ (late /\ last.dwell > 30) =>
                    /\ Len(itinerary') = n
                    /\ SubSeq(itinerary', 1, n - 1) = SubSeq(itinerary, 1, n - 1)
                    /\ itinerary'[n].name = last.name
                    /\ itinerary'[n].arrive = last.arrive
                    /\ itinerary'[n].dwell = (IF last.dwell - 30 < 30 THEN 30
                                                 ELSE last.dwell - 30)
                    /\ itinerary'[n].depart = Fmt(last.arrive + itinerary'[n].dwell)
                    /\ pc' = "adjust"
              /\ Len(itinerary') < n =>
                    /\ late
                    /\ last.dwell <= 30
                    /\ itinerary' = SubSeq(itinerary, 1, n - 1)
              /\ ~late => Len(itinerary') = n + 1]_vars

\* a visit trimmed to the floor was popped and an earlier visit is left
C8_PoppedAfterTrimming ==
    /\ planner = "system" /\ pc = "adjust"
    /\ Len(selected) >= 2
    /\ Len(itinerary) = Len(selected)
    /\ \E i \in 1..Len(selected) : Dur(selected[i]) > 30

\* C9: the plan fails only if the return leg from the origin, the step left
\* after the last pop, cannot reach the end point by end_time.
C9_FailsOnlyIfReturnFromOriginLate ==
    pc = "failed" =>
        Last(itinerary).depart + GeoTravel(Last(itinerary).name, end_point) > end_time

\* C10: a returned itinerary of a run that selected no place is the origin
\* step followed by a return step.
C10_NothingSelectedOriginAndReturn ==
    (Returned /\ selected = <<>>) =>
        /\ Len(itinerary) = 2
        /\ itinerary[1].kind = "origin"
        /\ itinerary[2].kind = "return"

---------------------------------------------------------------------------
(* Properties of the travel oracle and its cache *)

\* the fallback estimate of the last request
LastEstimate ==
    CalculateEstimatedTravelInfo(reply.request.origin, reply.request.destination,
                                 reply.request.mode)

\* C11: whenever the provider call of a route request raises, the caller
\* receives the fallback estimate, marked is_estimated, and no exception.
C11_ProviderFailureNeverSurfaces ==
    reply.provider = "raised" =>
        /\ reply.out.kind = "info"
        /\ reply.out.is_estimated
        /\ reply.out = LastEstimate

\* C11 (amended): for endpoints with coordinates in range, whenever the
\* provider call raises, the caller receives the fallback estimate, marked
\* is_estimated, and no exception.
C11_ProviderFailureFallsBackInRange ==
    (/\ reply.provider = "raised"
     /\ ValidateCoordinates(reply.request.origin)
     /\ ValidateCoordinates(reply.request.destination)) =>
        /\ reply.out.kind = "info"
        /\ reply.out.is_estimated
        /\ reply.out = LastEstimate

\* the provider raised for a request in range and the caller got the estimate
C11_FellBackAfterProviderRaised ==
    /\ reply.provider = "raised"
    /\ ValidateCoordinates(reply.request.destination)
    /\ reply.out.kind = "info"
    /\ reply.out.is_estimated
    /\ reply.out.minutes > 0

\* C12: an insertion that takes the cache over capacity evicts the least
\* recently used entry, a hit counting as a use.
C12_EvictsLeastRecentlyUsed ==
    [][(Len(cache) = CacheMaxSize /\ cache' # cache) =>
          \A i \in 1..Len(cache') : cache'[i].key # recency[1]]_vars

\* round(x, 4) of a coordinate (no model coordinate lies on a half)
Round4(p) == ((p + 5) \div 10) * 10

\* two requests with the same key in the sense of the specification
SameRoundedKey(a, b) ==
    /\ Round4(a.origin) = Round4(b.origin)
    /\ Round4(a.destination) = Round4(b.destination)
    /\ a.mode = b.mode
    /\ HourOf(a.dep) = HourOf(b.dep)

\* C13: a call that returns a travel info and agrees with a cached entry on
\* the rounded endpoints, the mode and the hour of departure is served from
\* that entry, and a call is served only from an entry with the same mode
\* and the same rounded endpoints.
C13_KeyIsRoundedEndpointsAndMode ==
    [][/\ (/\ reply'.out.kind = "info"
           /\ \E i \in 1..Len(cache) :
                 SameRoundedKey(cache[i].request, reply'.request))
          => reply'.hit
       /\ reply'.hit =>
             /\ reply'.source.mode = reply'.request.mode
             /\ Round4(reply'.source.origin) = Round4(reply'.request.origin)
             /\ Round4(reply'.source.destination) =
                    Round4(reply'.request.destination)]_vars

\* C14: an entry stored through one GeoService object (one planning run) is
\* never returned to a call through another one.
C14_CacheOwnedByOneRun ==
    reply.hit => reply.source.inst = reply.request.inst

---------------------------------------------------------------------------
(* Properties of the library functions and of the validators *)

\* C15: is_open_at returns true exactly when some non-null slot of the
\* day's list contains the time, overnight slots wrapping, wherever the null
\* entries of the list are.
C15_OpenIffSomeSlotContains ==
    call.op = "is_open_at" =>
        (call.flag <=>
            \E i \in 1..Len(call.hours) :
                /\ call.hours[i] # NullSlot
                /\ IsTimeInRange(call.a, call.hours[i].start, call.hours[i].end))

\* C16: add_minutes(t, delta) returns the time of day (t + delta) modulo 24
\* hours, for positive and negative delta.
C16_AddMinutesWrapsModuloDay ==
    call.op \in {"add_minutes", "_add_minutes_to_time"} =>
        /\ call.raised = ""
        /\ call.num = (call.a + call.b) % 1440

\* C17: duration(start, end, allow_overnight) is never negative, and for an
\* overnight pair it is (1440 - start) + end.
C17_DurationNeverNegative ==
    call.op = "calculate_duration" =>
        /\ call.num >= 0
        /\ (call.b < call.a /\ call.flag) => call.num = (1440 - call.a) + call.b

\* a zero-padded 24-hour HH:MM string
WellFormedTime(s) ==
    /\ Len(s) = 5
    /\ s[3] = ":"
    /\ \A i \in {1, 2, 4, 5} : IsDigit(s[i])
    /\ DigitValue(s[1]) * 10 + DigitValue(s[2]) <= 23
    /\ DigitValue(s[4]) * 10 + DigitValue(s[5]) <= 59

\* C18: the validator raises ValueError for exactly the time strings that
\* are not zero-padded 24-hour HH:MM.
C18_RejectsMalformedTimeStrings ==
    call.op = "_validate_time_format" =>
        (call.raised = "ValueError" <=> ~WellFormedTime(call.text))

\* C19: a requirement with well-formed times whose start is not strictly
\* earlier than its end is rejected with an error by validate_requirement,
\* by set_default_requirement and by plan.
C19_StartNotBeforeEndRejected ==
    (/\ call.op \in {"validate_requirement", "set_default_requirement", "plan"}
     /\ WellFormedTime(call.text)
     /\ WellFormedTime(call.text2)
     /\ Strptime(call.text) >= Strptime(call.text2)) =>
        call.raised # ""

\* C20: with meal times configured, get_time_period answers lunch within 60
\* minutes of the lunch time and dinner within 60 minutes of the dinner time;
\* with none configured it answers by the fixed thresholds.
C20_PeriodUsesConfiguredWindows ==
    call.op = "get_time_period" =>
        /\ (call.a # NoTime /\ Abs(call.c - call.a) <= MealWindow)
              => call.str = "lunch"
        /\ (call.b # NoTime /\ Abs(call.c - call.b) <= MealWindow)
              => call.str = "dinner"
        /\ (call.a = NoTime /\ call.b = NoTime) => call.str = HourPeriod(call.c)

---------------------------------------------------------------------------
(* Properties of the selection step and of the planning loops *)

\* the places of the remaining list that pass every test of the selection
\* step of the running planner
StepCandidates ==
    {remaining[i] : i \in {j \in 1..Len(remaining) :
        IF planner = "core" THEN CoreCandidate(remaining[j])
        ELSE IF planner = "advanced" THEN AdvCandidate(remaining[j])
        ELSE SysScore(remaining[j]) > -1 /\ IsFeasible(remaining[j])
               /\ (ShouldArrangeMeal(clock)
                     => Label(remaining[j]) \in {"restaurant", "snack"})}}

\* the score of a is at least the score of b, as the running planner scores
ScoreAtLeast(a, b) ==
    IF planner = "core"
    THEN CoreEffNum(a) * CoreEffDen(b) >= CoreEffNum(b) * CoreEffDen(a)
    ELSE IF planner = "advanced"
    THEN AdvScoreNum(a) * AdvScoreDen(b) >= AdvScoreNum(b) * AdvScoreDen(a)
    ELSE SysScore(a) >= SysScore(b)

\* the candidates that share the highest score
TopCandidates ==
    {n \in StepCandidates : \A m \in StepCandidates : ScoreAtLeast(n, m)}

StepTravel(n) ==
    IF planner = "system" THEN GeoTravel(here, n) ELSE TravelTime(here, n)

\* the order of the names as strings
NameOrder == <<"Annex", "Cafe", "Closed", "Diner", "Gallery", "Lookout", "Museum", "Park">>

NameRank(n) == CHOOSE i \in 1..Len(NameOrder) : NameOrder[i] = n

\* a comes before b in the order of the tie-break: higher rating, then
\* shorter travel, then smaller name
Preferred(a, b) ==
    \/ PoiPool[a].rating > PoiPool[b].rating
    \/ /\ PoiPool[a].rating = PoiPool[b].rating
       /\ \/ StepTravel(a) < StepTravel(b)
          \/ StepTravel(a) = StepTravel(b) /\ NameRank(a) < NameRank(b)

\* C21: when several feasible candidates share the highest score the place
\* selected is the one of them with the higher rating, then the shorter
\* travel time, then the smaller name.
C21_TieBrokenByRatingTravelName ==
    [][(pc = "loop" /\ Len(selected') = Len(selected) + 1
          /\ Cardinality(TopCandidates) >= 2)
          => /\ Last(selected') \in TopCandidates
             /\ \A m \in TopCandidates \ {Last(selected')} :
                    Preferred(Last(selected'), m)]_vars

---------------------------------------------------------------------------
(* Properties of the validation of opening hours *)

\* C22: constructing a place whose hours hold a slot with an end time
\* earlier than its start time raises ValueError.
C22_EndBeforeStartRejected ==
    (/\ call.op = "validate_hours"
     /\ \E i \in 1..Len(call.raw) :
           /\ call.raw[i] # NoneSlot
           /\ StrptimeOk(call.raw[i].start) /\ StrptimeOk(call.raw[i].end)
           /\ Strptime(call.raw[i].end) < Strptime(call.raw[i].start))
        => call.raised = "ValueError"

\* C23: no slot of a validated place record ends at 00:00.
C23_NoStoredSlotEndsAtMidnight ==
    (call.op = "validate_hours" /\ call.raised = "") =>
        \A i \in 1..Len(call.stored) :
            call.stored[i] # NoneSlot => call.stored[i].end # Midnight

---------------------------------------------------------------------------
(* Properties of the planning runs *)

\* C24: after a planning run every catalog record has the fields and the
\* values it had when the run started.
C24_CatalogRecordsUntouched ==
    pc \in {"done", "failed"} =>
        \A n \in DOMAIN locations : locations[n] = NoMealKeys

\* C29: a second call of plan on the same planner object returns the
\* itinerary the first call returned, the one of a fresh object.
C29_SecondCallAsFreshObject ==
    (run = 3 /\ pc \in {"done", "failed"}) =>
        first = [pc |-> pc, itinerary |-> itinerary]

\* C25: every iteration of the selection loop that does not end the loop
\* removes one place from the remaining list, which is finite, and appends
\* one visit, so the loop ends; an itinerary has at most as many visits as
\* the catalog has places.
C25_SelectionLoopTerminates ==
    /\ [][(pc = "loop" /\ pc' = "loop" /\ run' = run) =>
            /\ Len(remaining') = Len(remaining) - 1
            /\ Len(selected') = Len(selected) + 1
            /\ planner # "core" => VisitCount' = VisitCount + 1]_vars
    /\ [](VisitCount <= Len(catalog))

\* a run has taken every place of a catalog of two
C25_WholeCatalogVisited ==
    /\ pc # "loop"
    /\ Len(catalog) >= 2
    /\ remaining = <<>>
    /\ VisitCount = Len(catalog)

\* C26: the return-leg adjustment loop ends: an iteration that does not end
\* it either shortens the dwell of the last visit, which was above 30
\* minutes, or removes one step; the loop is left by appending the return
\* step or by raising.
C26_AdjustmentLoopTerminates ==
    [][(planner = "system" /\ pc = "adjust" /\ Len(itinerary) > 1) =>
          /\ pc' = "adjust" =>
                \/ /\ Len(itinerary') = Len(itinerary)
                   /\ Last(itinerary).dwell > 30
                   /\ Last(itinerary').dwell < Last(itinerary).dwell
                \/ Len(itinerary') = Len(itinerary) - 1
          /\ pc' # "adjust" =>
                \/ pc' = "done" /\ Len(itinerary') = Len(itinerary) + 1
                                /\ Last(itinerary').kind = "return"
                \/ pc' = "failed"]_vars

\* the loop was left with the return step after it had shortened a visit
C26_ReturnedAfterTrimming ==
    /\ planner = "system" /\ pc = "done"
    /\ Last(itinerary).kind = "return"
    /\ \E i \in VisitIndexes : itinerary[i].dwell < Dur(itinerary[i].name)

\* C27: the return-leg adjustment changes only the dwell and the departure
\* of the step that is last at that moment, and only downward: every step
\* that stays keeps its name, arrival and travel time, its dwell does not
\* grow, and the steps before the last one, the origin step first of all,
\* stay as they are.
C27_AdjustmentTouchesLastDwellOnly ==
    [][(planner = "system" /\ pc = "adjust") =>
          LET kept == Min(Len(itinerary), Len(itinerary'))
          IN  /\ \A i \in 1..kept :
                    /\ itinerary'[i].name = itinerary[i].name
                    /\ itinerary'[i].arrive = itinerary[i].arrive
                    /\ itinerary'[i].travel = itinerary[i].travel
                    /\ itinerary'[i].kind = itinerary[i].kind
                    /\ itinerary'[i].dwell <= itinerary[i].dwell
                    /\ itinerary'[i].depart <= itinerary[i].depart
              /\ \A i \in 1..(Len(itinerary) - 1) :
                    i <= Len(itinerary') => itinerary'[i] = itinerary[i]
              /\ itinerary'[1] = itinerary[1]]_vars

\* an itinerary with two visits was returned after the second one was
\* shortened
C27_ReturnedFirstVisitKeptLastTrimmed ==
    /\ planner = "system" /\ pc = "done"
    /\ Last(itinerary).kind = "return"
    /\ VisitCount >= 2
    /\ itinerary[2].dwell = Dur(itinerary[2].name)
    /\ itinerary[Len(itinerary) - 1].dwell < Dur(itinerary[Len(itinerary) - 1].name)

---------------------------------------------------------------------------
(* Property of the size of the cache *)

\* C28: after every call through the wrapper of geo_cache the cache holds
\* at most maxsize entries.
C28_CacheWithinMaxSize == Len(cache) <= CacheMaxSize

\* a call has stored its result in a full cache and an entry was dropped
C28_StoredIntoFullCache ==
    /\ reply.evicted
    /\ Len(cache) = CacheMaxSize
    /\ Last(cache).key = MakeCacheKey(reply.request)

---------------------------------------------------------------------------
(* Property of the meal flags *)

\* the visits of the itinerary of plan_trip that carry the meal type
\* (the entry copies 'is_meal' and 'meal_type' from the dict of the place)
MealStops(meal_type) ==
    {i \in VisitIndexes :
        /\ locations[itinerary[i].name].is_meal
        /\ locations[itinerary[i].name].meal_type = meal_type}

====
